---- MODULE Spec2Model ----
(***************************************************************************)
(* Session / segment state machine of octobe and its commit protocol.      *)
(*                                                                         *)
(* One driver is opened per behaviour (drv); it begins one session, whose  *)
(* builder stamps out single-use segments.  Every call that reaches the    *)
(* backend is appended to `calls`, and the result the caller sees of the   *)
(* last finished library call is kept in `ret`.  The test double of the    *)
(* pgx backend, PGXMock / PGXPoolMock, is kept in `mock` and is exercised  *)
(* on its own, from one goroutine (MockSpec) and from several              *)
(* (MockRaceSpec).                                                         *)
(***************************************************************************)
EXTENDS Integers, Sequences, FiniteSets, TLC

\* ------------------------------------------------------------- bounds
MaxSeg      == 1      \* segments a session's builder stamps out
MaxCalls    == 3      \* backend calls recorded per behaviour
MaxAttempts == 2      \* largest maxAttempts an option may configure
MaxOpts     == 2      \* options passed to one Begin call
MaxOpenOpts == 1      \* options passed to Open
MaxWrites   == 2      \* writes staged on a Firestore session
MaxExpect   == 2      \* expectations registered on a mock
MaxMockCalls == 3     \* calls made on a mock
MaxGoroutines == 2    \* goroutines that call one mock

Segs == 1..MaxSeg

\* ------------------------------------------------------------- errors
ErrNil          == "nil"
ErrAlreadyUsed  == "query already used"
ErrUsed         == "this query has already executed"
ErrCommitNoTx   == "cannot commit without transaction"
ErrRollbackNoTx == "cannot rollback without transaction"
ErrCommitted    == "cannot commit a session that has already been committed"
ErrBackend      == "backend error"
ErrAborted      == "Aborted"
ErrUnavailable  == "Unavailable"
ErrCanceled     == "Canceled"
ErrDeadline     == "DeadlineExceeded"
ErrBody         == "body error"
ErrCallback     == "callback error"
ErrWrapped      == "wrapped: body error"   \* fmt.Errorf("wrapped: %w", ErrBody)

BackendResults == {ErrNil, ErrBackend}
CommitResults  == {ErrNil, ErrAborted, ErrUnavailable}
SleepResults   == {ErrNil, ErrCanceled, ErrDeadline}

\* ------------------------------------------------------------ drivers
Pgx       == "pgx"
PgxPool   == "pgxpool"
Postgres  == "postgres"
Firestore == "firestore"
V1        == "v1"

LockDrivers == {Pgx, PgxPool}
Drivers     == {Pgx, PgxPool, Postgres, Firestore, V1}

DefaultDatabaseID == "(default)"
Databases == {DefaultDatabaseID, "other"}

VARIABLES
  drv,      \* the driver that was opened
  dcfg,     \* the driver's default configuration
  sess,     \* the session (alive = FALSE before Begin returned one)
  segs,     \* the segments stamped out by the session's builder
  stack,    \* segments whose Query row callback is running, innermost last
  calls,    \* the calls the backend received, in order
  st,       \* position of a running StartTransaction
  fc,       \* position of a running Firestore Commit
  ncommit,  \* Commit calls made on the session so far (counted up to 2)
  ret,      \* what the caller saw of the last finished call
  mock      \* a PGXMock / PGXPoolMock that is used on its own

vars == <<drv, dcfg, sess, segs, stack, calls, st, fc, ncommit, ret, mock>>

\* ------------------------------------------------------ configuration
\* One record for the config structs of all drivers: txOptions != nil is
\* transaction = TRUE; the postgres drivers read no other field.
ZeroConfig ==
  [transaction |-> FALSE, readOnly |-> FALSE, maxAttempts |-> 0, database |-> ""]

WithPGXTxOptions(c)   == [c EXCEPT !.transaction = TRUE]
WithTransaction(c)    == [c EXCEPT !.transaction = TRUE]
WithoutTransaction(c) == [c EXCEPT !.transaction = FALSE]
WithReadOnly(c)       == [c EXCEPT !.readOnly = TRUE]
WithMaxAttempts(c, n) == [c EXCEPT !.maxAttempts = n]
WithDatabase(c, d)    == [c EXCEPT !.database = d]

\* An option is a tagged value; Opt applies one mutator to a config.
Opt(o, c) ==
  CASE o.name = "WithPGXTxOptions"   -> WithPGXTxOptions(c)
    [] o.name = "WithTransaction"    -> WithTransaction(c)
    [] o.name = "WithoutTransaction" -> WithoutTransaction(c)
    [] o.name = "WithReadOnly"       -> WithReadOnly(c)
    [] o.name = "WithMaxAttempts"    -> WithMaxAttempts(c, o.arg)
    [] o.name = "WithDatabase"       -> WithDatabase(c, o.arg)

\* for _, opt := range opts { opt(&cfg) }
RECURSIVE ApplyOpts(_, _)
ApplyOpts(opts, c) ==
  IF opts = <<>> THEN c ELSE ApplyOpts(Tail(opts), Opt(Head(opts), c))

O(n, a) == [name |-> n, arg |-> a]

OptionsOf(d) ==
  CASE d \in LockDrivers -> {O("WithPGXTxOptions", 0)}
    [] d = V1            -> {}
    [] d = Postgres      -> {O("WithTransaction", 0), O("WithoutTransaction", 0)}
    [] d = Firestore     ->
         {O("WithTransaction", 0), O("WithoutTransaction", 0), O("WithReadOnly", 0)}
           \cup {O("WithMaxAttempts", n) : n \in 0..MaxAttempts}
           \cup {O("WithDatabase", x) : x \in Databases}

OptLists(d) ==
  UNION {[1..n -> OptionsOf(d)] : n \in 0..MaxOpts}

OpenLists(d) ==
  UNION {[1..n -> OptionsOf(d)] : n \in 0..MaxOpenOpts}

\* The configuration a driver holds after Open(opts...).
OpenConfig(d, opts) ==
  CASE d \in LockDrivers -> ZeroConfig
    [] d = V1            -> ZeroConfig
    [] d = Postgres      -> ApplyOpts(opts, ZeroConfig)
    [] d = Firestore     ->
         LET c == ApplyOpts(opts, [ZeroConfig EXCEPT !.database = DefaultDatabaseID])
         IN  IF c.database = "" THEN [c EXCEPT !.database = DefaultDatabaseID] ELSE c

\* ------------------------------------------------------------ records
NoSession ==
  [alive |-> FALSE, cfg |-> ZeroConfig, tx |-> FALSE, txId |-> 0,
   committed |-> FALSE, ctx |-> "nil", writes |-> <<>>, owner |-> "none"]

NoSegment == [made |-> FALSE, used |-> FALSE, tx |-> FALSE, called |-> FALSE]

\* A call as the backend receives it: the method, the handle it was made on
\* ("tx", "conn" or "client"), the context it carried, the segment that made
\* it (0: none), whether a call of that segment was still running, and, for
\* a commit, the answer the backend gave (the caller sees the answers to the
\* other calls in what the call returns).
Call(op, via, ctx, seg, res) ==
  [op |-> op, via |-> via, ctx |-> ctx, seg |-> seg,
   reentrant |-> (seg # 0 /\ \E i \in 1..Len(stack) : stack[i].seg = seg),
   db |-> "", txId |-> 0, writes |-> <<>>, readOnly |-> FALSE, retry |-> FALSE,
   res |-> IF op = "Commit" THEN res ELSE "n/a"]

\* What the caller sees of a finished call.  later: another call of the
\* same segment had started before this one did; nth: for Commit, whether
\* it is the session's first call of it (1) or a later one (2); issued: the
\* backend calls this call made; attempts: the commit requests among them;
\* committed0: the committed flag when the call started;
\* cb / rb: the error producer was invoked / Rollback was attempted;
\* errs: the members of the compound error the caller is handed, if any;
\* panic: the value the call panicked with; session: Begin returned a
\* session; body: how the StartTransaction body ended; lastCommit: the
\* backend's answer to the call's last commit request; sleepErr: what the
\* call's last backoff sleep returned; answer: the backend's answer to the
\* begin call of a Begin; used0: the segment's used flag when the call
\* started; sleeps: the backoff sleeps of a Firestore Commit; writes0: the
\* session's buffer of staged writes when the Commit started.
Ret(op, seg, err, issued) ==
  [op |-> op, seg |-> seg, err |-> err, issued |-> issued, attempts |-> 0,
   later |-> FALSE, nth |-> 0,
   committed0 |-> FALSE, cb |-> FALSE, cbErr |-> ErrNil, rb |-> FALSE,
   rbErr |-> ErrNil, errs |-> <<>>, panic |-> "none", session |-> FALSE,
   body |-> "none", lastCommit |-> "none", sleepErr |-> ErrNil,
   answer |-> "none", used0 |-> FALSE, sleeps |-> 0, writes0 |-> <<>>]

NoRet == Ret("none", 0, ErrNil, 0)

Idle == [pc |-> "idle", base |-> 0]

\* ------------------------------------------------ pgx: single connection
\* Begin: the effective configuration starts from the zero pgxConfig.
pgxBeginConfig(opts) == ApplyOpts(opts, ZeroConfig)

\* r is the backend's answer to BeginTx, read only when BeginTx is called.
\* Begin that hands out a session whatever BeginTx answered.
pgxBeginLenient(ctx, opts, r) ==
  LET cfg == pgxBeginConfig(opts)
      out == IF cfg.transaction THEN <<Call("BeginTx", "conn", ctx, 0, r)>> ELSE <<>>
  IN  [out  |-> out,
       err  |-> IF cfg.transaction THEN r ELSE ErrNil,
       sess |-> [NoSession EXCEPT !.alive = TRUE, !.cfg = cfg, !.ctx = ctx,
                                  !.tx = cfg.transaction, !.owner = "caller"]]

pgxBegin(ctx, opts, r) ==
  LET cfg == pgxBeginConfig(opts)
      out == IF cfg.transaction THEN <<Call("BeginTx", "conn", ctx, 0, r)>> ELSE <<>>
      err == IF cfg.transaction THEN r ELSE ErrNil
  IN  [out  |-> out,
       err  |-> err,
       sess |-> IF err # ErrNil THEN NoSession
                ELSE [NoSession EXCEPT !.alive = TRUE, !.cfg = cfg, !.ctx = ctx,
                                       !.tx = cfg.transaction, !.owner = "caller"]]

\* Commit as the v2 session has it, without the already-committed guard.
pgxCommitUnguarded(s, r) ==
  IF ~s.cfg.transaction THEN [sess |-> s, out |-> <<>>, err |-> ErrCommitNoTx]
  ELSE [sess |-> [s EXCEPT !.committed = TRUE],
        out  |-> <<Call("Commit", "tx", s.ctx, 0, r)>>,
        err  |-> r]

pgxCommit(s, r) ==
  IF s.committed THEN [sess |-> s, out |-> <<>>, err |-> ErrCommitted]
  ELSE IF ~s.cfg.transaction THEN [sess |-> s, out |-> <<>>, err |-> ErrCommitNoTx]
  ELSE [sess |-> [s EXCEPT !.committed = TRUE],
        out  |-> <<Call("Commit", "tx", s.ctx, 0, r)>>,
        err  |-> r]

\* Rollback that goes to the backend whatever the session's configuration.
pgxRollbackUnguarded(s, r) ==
  [sess |-> s, out |-> <<Call("Rollback", "tx", s.ctx, 0, r)>>, err |-> r]

pgxRollback(s, r) ==
  IF ~s.cfg.transaction THEN [sess |-> s, out |-> <<>>, err |-> ErrRollbackNoTx]
  ELSE [sess |-> s, out |-> <<Call("Rollback", "tx", s.ctx, 0, r)>>, err |-> r]

\* Builder() stamps out a segment on the session's handle.
pgxBuilder(s) == [NoSegment EXCEPT !.made = TRUE, !.tx = s.tx]

\* Exec that goes to the connection whatever handle the segment was given.
pgxSegmentExecOnConn(g, seg, s, r) ==
  IF seg.used THEN [seg |-> seg, out |-> <<>>, err |-> ErrAlreadyUsed]
  ELSE [seg |-> [seg EXCEPT !.used = TRUE],
        out |-> <<Call("Exec", "conn", s.ctx, g, r)>>,
        err |-> r]

\* Exec, QueryRow: one backend call on the transaction handle or, without
\* one, on the connection; the deferred use() runs when the method returns.
\* Exec that marks the segment used only when the statement succeeded.
pgxSegmentExecRetryable(g, seg, s, r) ==
  IF seg.used THEN [seg |-> seg, out |-> <<>>, err |-> ErrAlreadyUsed]
  ELSE [seg |-> IF r = ErrNil THEN [seg EXCEPT !.used = TRUE] ELSE seg,
        out |-> <<Call("Exec", IF seg.tx THEN "tx" ELSE "conn", s.ctx, g, r)>>,
        err |-> r]

pgxSegmentExec(g, seg, s, r) ==
  IF seg.used THEN [seg |-> seg, out |-> <<>>, err |-> ErrAlreadyUsed]
  ELSE [seg |-> [seg EXCEPT !.used = TRUE],
        out |-> <<Call("Exec", IF seg.tx THEN "tx" ELSE "conn", s.ctx, g, r)>>,
        err |-> r]

pgxSegmentQueryRow(g, seg, s, r) ==
  IF seg.used THEN [seg |-> seg, out |-> <<>>, err |-> ErrAlreadyUsed]
  ELSE [seg |-> [seg EXCEPT !.used = TRUE],
        out |-> <<Call("QueryRow", IF seg.tx THEN "tx" ELSE "conn", s.ctx, g, r)>>,
        err |-> r]

\* Query up to the row callback: running = TRUE when cb(rows) is entered,
\* which is before the deferred use() has run.
pgxSegmentQuery(g, seg, s, r) ==
  IF seg.used THEN [seg |-> seg, out |-> <<>>, err |-> ErrAlreadyUsed, running |-> FALSE]
  ELSE [seg |-> IF r # ErrNil THEN [seg EXCEPT !.used = TRUE] ELSE seg,
        out |-> <<Call("Query", IF seg.tx THEN "tx" ELSE "conn", s.ctx, g, r)>>,
        err |-> r,
        running |-> (r = ErrNil)]

\* Query after cb(rows) returned e: rows.Close(), which has no result here
\* (c is not read), then use(), and e is returned.
pgxSegmentQueryReturn(seg, e, c) ==
  [seg |-> [seg EXCEPT !.used = TRUE], err |-> e, errs |-> <<>>]

\* ------------------------------------------------ pgxpool: pooled driver
pgxpoolBeginConfig(opts) == ApplyOpts(opts, ZeroConfig)

pgxpoolBegin(ctx, opts, r) ==
  LET cfg == pgxpoolBeginConfig(opts)
      out == IF cfg.transaction THEN <<Call("BeginTx", "conn", ctx, 0, r)>> ELSE <<>>
      err == IF cfg.transaction THEN r ELSE ErrNil
  IN  [out  |-> out,
       err  |-> err,
       sess |-> IF err # ErrNil THEN NoSession
                ELSE [NoSession EXCEPT !.alive = TRUE, !.cfg = cfg, !.ctx = ctx,
                                       !.tx = cfg.transaction, !.owner = "caller"]]

\* Commit that reports success whatever the backend answered.
pgxpoolCommitQuiet(s, r) ==
  IF s.committed THEN [sess |-> s, out |-> <<>>, err |-> ErrCommitted]
  ELSE IF ~s.cfg.transaction THEN [sess |-> s, out |-> <<>>, err |-> ErrCommitNoTx]
  ELSE [sess |-> [s EXCEPT !.committed = TRUE],
        out  |-> <<Call("Commit", "tx", s.ctx, 0, r)>>,
        err  |-> ErrNil]

pgxpoolCommit(s, r) ==
  IF s.committed THEN [sess |-> s, out |-> <<>>, err |-> ErrCommitted]
  ELSE IF ~s.cfg.transaction THEN [sess |-> s, out |-> <<>>, err |-> ErrCommitNoTx]
  ELSE [sess |-> [s EXCEPT !.committed = TRUE],
        out  |-> <<Call("Commit", "tx", s.ctx, 0, r)>>,
        err  |-> r]

pgxpoolRollback(s, r) ==
  IF ~s.cfg.transaction THEN [sess |-> s, out |-> <<>>, err |-> ErrRollbackNoTx]
  ELSE [sess |-> s, out |-> <<Call("Rollback", "tx", s.ctx, 0, r)>>, err |-> r]

pgxpoolBuilder(s) == [NoSegment EXCEPT !.made = TRUE, !.tx = s.tx]

pgxpoolSegmentExec(g, seg, s, r) ==
  IF seg.used THEN [seg |-> seg, out |-> <<>>, err |-> ErrAlreadyUsed]
  ELSE [seg |-> [seg EXCEPT !.used = TRUE],
        out |-> <<Call("Exec", IF seg.tx THEN "tx" ELSE "conn", s.ctx, g, r)>>,
        err |-> r]

pgxpoolSegmentQueryRow(g, seg, s, r) ==
  IF seg.used THEN [seg |-> seg, out |-> <<>>, err |-> ErrAlreadyUsed]
  ELSE [seg |-> [seg EXCEPT !.used = TRUE],
        out |-> <<Call("QueryRow", IF seg.tx THEN "tx" ELSE "conn", s.ctx, g, r)>>,
        err |-> r]

pgxpoolSegmentQuery(g, seg, s, r) ==
  IF seg.used THEN [seg |-> seg, out |-> <<>>, err |-> ErrAlreadyUsed, running |-> FALSE]
  ELSE [seg |-> IF r # ErrNil THEN [seg EXCEPT !.used = TRUE] ELSE seg,
        out |-> <<Call("Query", IF seg.tx THEN "tx" ELSE "conn", s.ctx, g, r)>>,
        err |-> r,
        running |-> (r = ErrNil)]

pgxpoolSegmentQueryReturn(seg, e, c) ==
  [seg |-> [seg EXCEPT !.used = TRUE], err |-> e, errs |-> <<>>]

\* ------------------------------------------------ postgres (v2 driver)
\* The options layered the other way round: an earlier option overrides a
\* later one that sets the same field.
RECURSIVE ApplyOptsFirstWins(_, _)
ApplyOptsFirstWins(opts, c) ==
  IF opts = <<>> THEN c ELSE Opt(Head(opts), ApplyOptsFirstWins(Tail(opts), c))

postgresBeginConfigFirstWins(d, opts) == ApplyOptsFirstWins(opts, d)

\* Begin copies the driver's defaults and always opens a backend
\* transaction: pool.Begin without txOptions, pool.BeginTx with them.
postgresBeginConfig(d, opts) == ApplyOpts(opts, d)

\* d.cfg after Begin: `cfg := d.cfg` copies the struct and the options are
\* applied to the copy.
postgresBeginDefaults(d, opts) == d

postgresBegin(d, ctx, opts, r) ==
  LET cfg == postgresBeginConfig(d, opts)
  IN  [out  |-> <<Call(IF cfg.transaction THEN "BeginTx" ELSE "Begin", "conn", ctx, 0, r)>>,
       err  |-> r,
       sess |-> IF r # ErrNil THEN NoSession
                ELSE [NoSession EXCEPT !.alive = TRUE, !.cfg = cfg, !.ctx = ctx,
                                       !.tx = TRUE, !.owner = "caller"]]

postgresCommit(s, r) ==
  IF ~s.cfg.transaction THEN [sess |-> s, out |-> <<>>, err |-> ErrCommitNoTx]
  ELSE [sess |-> [s EXCEPT !.committed = TRUE],
        out  |-> <<Call("Commit", "tx", s.ctx, 0, r)>>,
        err  |-> r]

postgresRollback(s, r) ==
  IF ~s.cfg.transaction THEN [sess |-> s, out |-> <<>>, err |-> ErrRollbackNoTx]
  ELSE [sess |-> s, out |-> <<Call("Rollback", "tx", s.ctx, 0, r)>>, err |-> r]

\* WatchRollback(cb): e is what cb returns if it is invoked, r the backend's
\* answer to a rollback.  The method has no result: the caller is handed
\* no error (errs is empty), whatever Rollback returned.
postgresWatchRollback(s, e, r) ==
  LET rb == postgresRollback(s, r)
  IN  IF ~s.committed
      THEN [sess |-> rb.sess, out |-> rb.out, cb |-> FALSE, rb |-> TRUE,
            rbErr |-> rb.err, errs |-> <<>>]
      ELSE IF e # ErrNil
      THEN [sess |-> rb.sess, out |-> rb.out, cb |-> TRUE, rb |-> TRUE,
            rbErr |-> rb.err, errs |-> <<>>]
      ELSE [sess |-> s, out |-> <<>>, cb |-> TRUE, rb |-> FALSE,
            rbErr |-> ErrNil, errs |-> <<>>]

postgresBuilder(s) == [NoSegment EXCEPT !.made = TRUE, !.tx = s.tx]

postgresSegmentExec(g, seg, s, r) ==
  IF seg.used THEN [seg |-> seg, out |-> <<>>, err |-> ErrAlreadyUsed]
  ELSE [seg |-> [seg EXCEPT !.used = TRUE],
        out |-> <<Call("Exec", "tx", s.ctx, g, r)>>,
        err |-> r]

postgresSegmentQueryRow(g, seg, s, r) ==
  IF seg.used THEN [seg |-> seg, out |-> <<>>, err |-> ErrAlreadyUsed]
  ELSE [seg |-> [seg EXCEPT !.used = TRUE],
        out |-> <<Call("QueryRow", "tx", s.ctx, g, r)>>,
        err |-> r]

postgresSegmentQuery(g, seg, s, r) ==
  IF seg.used THEN [seg |-> seg, out |-> <<>>, err |-> ErrAlreadyUsed, running |-> FALSE]
  ELSE [seg |-> IF r # ErrNil THEN [seg EXCEPT !.used = TRUE] ELSE seg,
        out |-> <<Call("Query", "tx", s.ctx, g, r)>>,
        err |-> r,
        running |-> (r = ErrNil)]

postgresSegmentQueryReturn(seg, e, c) ==
  [seg |-> [seg EXCEPT !.used = TRUE], err |-> e, errs |-> <<>>]

\* ------------------------------------------------ firestore (v2 driver)
firestoreBeginConfig(d, opts) == ApplyOpts(opts, d)

\* Begin whose options write through to the driver's own configuration.
firestoreBeginShared(d, opts) == ApplyOpts(opts, d)

\* d.cfg after Begin: `cfg := d.cfg` copies the struct and the options are
\* applied to the copy.
firestoreBeginDefaults(d, opts) == d

\* Begin: BeginTransaction names the database of the driver's defaults, and
\* the session literal sets cfg and client only, so session.ctx stays nil.
firestoreBegin(d, ctx, opts, r) ==
  LET cfg == firestoreBeginConfig(d, opts)
      req == [Call("BeginTransaction", "client", ctx, 0, r)
                EXCEPT !.db = d.database, !.readOnly = cfg.readOnly]
  IN  IF ~cfg.transaction
      THEN [out |-> <<>>, err |-> ErrNil,
            sess |-> [NoSession EXCEPT !.alive = TRUE, !.cfg = cfg, !.owner = "caller"]]
      ELSE [out |-> <<req>>, err |-> r,
            sess |-> IF r # ErrNil THEN NoSession
                     ELSE [NoSession EXCEPT !.alive = TRUE, !.cfg = cfg, !.txId = 1,
                                            !.owner = "caller"]]

firestoreRollback(s, r) ==
  IF s.txId = 0 THEN [sess |-> s, out |-> <<>>, err |-> ErrRollbackNoTx]
  ELSE [sess |-> s,
        out  |-> <<[Call("Rollback", "client", s.ctx, 0, r)
                      EXCEPT !.db = s.cfg.database, !.txId = s.txId]>>,
        err  |-> r]

\* The position inside Commit: the loop counter i, whether txOpts was built,
\* and err, the variable declared before the loop.  The loop body declares
\* its own err (`_, err := s.client.Commit`), so neither the commit's answer
\* nor `err = cerr` ever reaches the outer one.
CommitLoop(i, txOpts, err, pc) ==
  [pc |-> pc, i |-> i, txOpts |-> txOpts, err |-> err, issued |-> 0,
   lastCommit |-> "none", sleepErr |-> ErrNil, committed0 |-> FALSE,
   sleeps |-> 0, writes0 |-> <<>>]

\* A loop head that never leaves the loop.
firestoreCommitLoopForever(s, i) == "attempt"

\* for i := 0; i < s.cfg.maxAttempts; i++
firestoreCommitLoopHead(s, i) ==
  IF i < s.cfg.maxAttempts THEN "attempt" ELSE "after"

\* Commit up to the loop: done = TRUE when it returned at the txId guard.
firestoreCommitEnter(s) ==
  IF s.txId = 0
  THEN [done |-> TRUE, err |-> ErrCommitNoTx, loop |-> Idle]
  ELSE [done |-> FALSE, err |-> ErrNil,
        loop |-> [CommitLoop(0, FALSE, ErrNil, firestoreCommitLoopHead(s, 0))
                    EXCEPT !.committed0 = s.committed, !.writes0 = s.writes]]

\* A pass that goes on to retry after every error of the commit request.
firestoreCommitAttemptRetryAll(s, l, r) ==
  LET req == [Call("Commit", "client", s.ctx, 0, r)
                EXCEPT !.db = s.cfg.database, !.txId = s.txId, !.writes = s.writes]
      l1  == [l EXCEPT !.issued = @ + 1, !.lastCommit = r]
  IN  IF s.cfg.readOnly \/ r = ErrNil
      THEN [done |-> TRUE, err |-> r, out |-> <<req>>,
            sess |-> [s EXCEPT !.committed = TRUE], loop |-> l1]
      ELSE [done |-> FALSE, err |-> ErrNil, out |-> <<req>>, sess |-> s,
            loop |-> [l1 EXCEPT !.txOpts = TRUE, !.pc = "sleep"]]

\* A pass that lets a read-only session retry like a read-write one.
firestoreCommitAttemptReadWrite(s, l, r) ==
  LET req == [Call("Commit", "client", s.ctx, 0, r)
                EXCEPT !.db = s.cfg.database, !.txId = s.txId, !.writes = s.writes]
      l1  == [l EXCEPT !.issued = @ + 1, !.lastCommit = r]
  IN  IF r # ErrAborted
      THEN [done |-> TRUE, err |-> r, out |-> <<req>>,
            sess |-> [s EXCEPT !.committed = TRUE], loop |-> l1]
      ELSE [done |-> FALSE, err |-> ErrNil, out |-> <<req>>, sess |-> s,
            loop |-> [l1 EXCEPT !.txOpts = TRUE, !.pc = "sleep"]]

\* One pass of the loop body up to the sleep; r is the backend's answer.
firestoreCommitAttempt(s, l, r) ==
  LET req == [Call("Commit", "client", s.ctx, 0, r)
                EXCEPT !.db = s.cfg.database, !.txId = s.txId, !.writes = s.writes]
      l1  == [l EXCEPT !.issued = @ + 1, !.lastCommit = r]
  IN  IF s.cfg.readOnly \/ r # ErrAborted
      THEN [done |-> TRUE, err |-> r, out |-> <<req>>,
            sess |-> [s EXCEPT !.committed = TRUE], loop |-> l1]
      ELSE [done |-> FALSE, err |-> ErrNil, out |-> <<req>>, sess |-> s,
            loop |-> [l1 EXCEPT !.txOpts = TRUE, !.pc = "sleep"]]

\* sleep(ctx, dur): gax.Sleep's error, with the two context errors turned
\* into status errors of the same code.
sleep(ctx, e) ==
  CASE e = ErrCanceled -> ErrCanceled
    [] e = ErrDeadline -> ErrDeadline
    [] OTHER           -> e

\* The rest of the loop body without the reset of writes.
firestoreCommitSleepKeep(s, l, e) ==
  LET cerr == sleep(s.ctx, e)
  IN  IF cerr # ErrNil
      THEN [sess |-> s,
            loop |-> [l EXCEPT !.sleepErr = cerr, !.sleeps = @ + 1, !.pc = "after"]]
      ELSE [sess |-> s,
            loop |-> [l EXCEPT !.sleepErr = cerr, !.sleeps = @ + 1, !.i = @ + 1,
                               !.pc = firestoreCommitLoopHead(s, l.i + 1)]]

\* The rest of the loop body: the backoff sleep, then the reset of writes.
firestoreCommitSleep(s, l, e) ==
  LET cerr == sleep(s.ctx, e)
  IN  IF cerr # ErrNil
      THEN [sess |-> s,
            loop |-> [l EXCEPT !.sleepErr = cerr, !.sleeps = @ + 1, !.pc = "after"]]
      ELSE [sess |-> [s EXCEPT !.writes = <<>>],
            loop |-> [l EXCEPT !.sleepErr = cerr, !.sleeps = @ + 1, !.i = @ + 1,
                               !.pc = firestoreCommitLoopHead(s, l.i + 1)]]

\* After the loop: `if err != nil { return s.Rollback() }; return err`.
firestoreCommitAfter(s, l, r) ==
  LET rb == firestoreRollback(s, r)
  IN  IF l.err # ErrNil
      THEN [err |-> rb.err, out |-> rb.out, sess |-> [rb.sess EXCEPT !.committed = TRUE]]
      ELSE [err |-> l.err, out |-> <<>>, sess |-> [s EXCEPT !.committed = TRUE]]

\* addTransactionalWrites(w): the write joins the session's buffer.
firestoreAddTransactionalWrites(s, w) == [s EXCEPT !.writes = Append(@, w)]

\* Builder()(collection): the segment stages on the session when the session
\* has a transaction identity; transaction = FALSE is the nil function.
firestoreBuilder(s) == [transaction |-> (s.txId # 0)]

firestoreWatchRollback(s, e, r) ==
  LET rb == firestoreRollback(s, r)
  IN  IF ~s.committed
      THEN [sess |-> rb.sess, out |-> rb.out, cb |-> FALSE, rb |-> TRUE,
            rbErr |-> rb.err, errs |-> <<>>]
      ELSE IF e # ErrNil
      THEN [sess |-> rb.sess, out |-> rb.out, cb |-> TRUE, rb |-> TRUE,
            rbErr |-> rb.err, errs |-> <<>>]
      ELSE [sess |-> s, out |-> <<>>, cb |-> TRUE, rb |-> FALSE,
            rbErr |-> ErrNil, errs |-> <<>>]

\* ------------------------------------------------ v1: Octobe and Scheme
\* Begin hands out a scheme on the database itself and calls no backend.
v1Begin(ctx) ==
  [out |-> <<>>, err |-> ErrNil,
   sess |-> [NoSession EXCEPT !.alive = TRUE, !.ctx = ctx, !.owner = "caller"]]

\* BeginTx hands out a scheme on the transaction the backend opened.
v1BeginTx(ctx, r) ==
  [out  |-> <<Call("BeginTx", "conn", ctx, 0, r)>>,
   err  |-> r,
   sess |-> IF r # ErrNil THEN NoSession
            ELSE [NoSession EXCEPT !.alive = TRUE, !.ctx = ctx, !.tx = TRUE,
                                   !.cfg = [ZeroConfig EXCEPT !.transaction = TRUE],
                                   !.owner = "caller"]]

\* Commit, Rollback: delegated when scheme.db has the method (a *sql.Tx).
v1Commit(s, r) ==
  IF s.tx THEN [sess |-> s, out |-> <<Call("Commit", "tx", "none", 0, r)>>, err |-> r]
  ELSE [sess |-> s, out |-> <<>>, err |-> ErrNil]

\* Rollback of a scheme that never reaches the backend.
v1RollbackLocal(s, r) == [sess |-> s, out |-> <<>>, err |-> ErrNil]

v1Rollback(s, r) ==
  IF s.tx THEN [sess |-> s, out |-> <<Call("Rollback", "tx", "none", 0, r)>>, err |-> r]
  ELSE [sess |-> s, out |-> <<>>, err |-> ErrNil]

\* errors.Unwrap: the error e wraps (ErrNil: none).
Unwrap(e) == IF e = ErrWrapped THEN ErrBody ELSE ErrNil

\* errors.Is(e, target) for a non-nil target: e or an error it wraps is target.
RECURSIVE errorsIs(_, _)
errorsIs(e, target) ==
  IF e = ErrNil THEN FALSE
  ELSE IF e = target THEN TRUE
  ELSE errorsIs(Unwrap(e), target)

\* errs.Is(target): the loop over the members, first match returns.
RECURSIVE errsIs(_, _)
errsIs(es, target) ==
  IF es = <<>> THEN FALSE
  ELSE IF errorsIs(Head(es), target) THEN TRUE
  ELSE errsIs(Tail(es), target)

\* errs.As(target) walks the members the same way; a target type is named
\* by the error values of that type, here one value per type.
RECURSIVE errsAs(_, _)
errsAs(es, target) ==
  IF es = <<>> THEN FALSE
  ELSE IF errorsIs(Head(es), target) THEN TRUE
  ELSE errsAs(Tail(es), target)

\* errs.Error(): one "<message>." per non-nil member, in order (joined by
\* spaces in the code; kept as a sequence here).
RECURSIVE errsError(_)
errsError(es) ==
  IF es = <<>> THEN <<>>
  ELSE IF Head(es) = ErrNil THEN errsError(Tail(es))
  ELSE <<Head(es) \o ".">> \o errsError(Tail(es))

\* Scheme.WatchRollback(cb): e is what cb returns, r the backend's answer
\* to a rollback.
v1WatchRollback(s, e, r) ==
  LET rb == v1Rollback(s, r)
  IN  IF e # ErrNil
      THEN [sess |-> rb.sess, out |-> rb.out, cb |-> TRUE, rb |-> TRUE,
            rbErr |-> rb.err, err |-> "errs", errs |-> <<e, rb.err>>]
      ELSE [sess |-> s, out |-> <<>>, cb |-> TRUE, rb |-> FALSE,
            rbErr |-> ErrNil, err |-> ErrNil, errs |-> <<>>]

\* WatchTransaction that hands back cb's error alone.
v1WatchTransactionEndBare(s, e, r) ==
  LET rb == v1Rollback(s, r)
      cm == v1Commit(s, r)
  IN  IF e # ErrNil
      THEN [sess |-> rb.sess, out |-> rb.out, rb |-> TRUE, rbErr |-> rb.err,
            err |-> "errs", errs |-> <<e>>]
      ELSE [sess |-> cm.sess, out |-> cm.out, rb |-> FALSE, rbErr |-> ErrNil,
            err |-> cm.err, errs |-> <<>>]

\* Octobe.WatchTransaction once BeginTx returned scheme s and cb returned e;
\* r is the backend's answer to the rollback or commit.
v1WatchTransactionEnd(s, e, r) ==
  LET rb == v1Rollback(s, r)
      cm == v1Commit(s, r)
  IN  IF e # ErrNil
      THEN [sess |-> rb.sess, out |-> rb.out, rb |-> TRUE, rbErr |-> rb.err,
            err |-> "errs", errs |-> <<e, rb.err>>]
      ELSE [sess |-> cm.sess, out |-> cm.out, rb |-> FALSE, rbErr |-> ErrNil,
            err |-> cm.err, errs |-> <<>>]

v1Segment(s) == [NoSegment EXCEPT !.made = TRUE, !.tx = s.tx]

v1SegmentExec(g, seg, s, r) ==
  IF seg.used THEN [seg |-> seg, out |-> <<>>, err |-> ErrUsed]
  ELSE [seg |-> [seg EXCEPT !.used = TRUE],
        out |-> <<Call("Exec", IF seg.tx THEN "tx" ELSE "conn", s.ctx, g, r)>>,
        err |-> r]

v1SegmentQueryRow(g, seg, s, r) ==
  IF seg.used THEN [seg |-> seg, out |-> <<>>, err |-> ErrUsed]
  ELSE [seg |-> [seg EXCEPT !.used = TRUE],
        out |-> <<Call("QueryRow", IF seg.tx THEN "tx" ELSE "conn", s.ctx, g, r)>>,
        err |-> r]

v1SegmentQuery(g, seg, s, r) ==
  IF seg.used THEN [seg |-> seg, out |-> <<>>, err |-> ErrUsed, running |-> FALSE]
  ELSE [seg |-> IF r # ErrNil THEN [seg EXCEPT !.used = TRUE] ELSE seg,
        out |-> <<Call("Query", IF seg.tx THEN "tx" ELSE "conn", s.ctx, g, r)>>,
        err |-> r,
        running |-> (r = ErrNil)]

\* Query after cb(rows) returned e; c is what rows.Close() returns.
v1SegmentQueryReturn(seg, e, c) ==
  IF e # ErrNil
  THEN [seg |-> [seg EXCEPT !.used = TRUE], err |-> "errs", errs |-> <<e, c>>]
  ELSE [seg |-> [seg EXCEPT !.used = TRUE], err |-> c, errs |-> <<>>]

\* ------------------------------------------------ StartTransaction
\* How StartTransaction ends once Begin returned session s: how is the way
\* the body ended ("return" with error e, or "panic" with value p); rb and
\* cm are what Rollback and Commit do on s.
StartTransactionEnd(s, how, e, p, rb, cm) ==
  IF how = "panic"
  THEN [sess |-> rb.sess, out |-> rb.out, err |-> "none", panic |-> p]
  ELSE IF e # ErrNil
  THEN [sess |-> rb.sess, out |-> rb.out, err |-> e, panic |-> "none"]
  ELSE [sess |-> cm.sess, out |-> cm.out, err |-> cm.err, panic |-> "none"]

\* ------------------------------------------------ the driver interface
BeginCtx == "ctx"

DriverBegin(opts, r) ==
  CASE drv = Pgx       -> pgxBegin(BeginCtx, opts, r)
    [] drv = PgxPool   -> pgxpoolBegin(BeginCtx, opts, r)
    [] drv = Postgres  -> postgresBegin(dcfg, BeginCtx, opts, r)
    [] drv = Firestore -> firestoreBegin(dcfg, BeginCtx, opts, r)
    [] drv = V1        -> v1Begin(BeginCtx)

\* The driver's default configuration after Begin(ctx, opts...); the pgx and
\* pgxpool drivers and v1 hold none.
DriverBeginDefaults(opts) ==
  CASE drv = Postgres  -> postgresBeginDefaults(dcfg, opts)
    [] drv = Firestore -> firestoreBeginDefaults(dcfg, opts)
    [] OTHER           -> dcfg

SessionCommit(s, r) ==
  CASE drv = Pgx      -> pgxCommit(s, r)
    [] drv = PgxPool  -> pgxpoolCommit(s, r)
    [] drv = Postgres -> postgresCommit(s, r)
    [] drv = V1       -> v1Commit(s, r)

SessionRollback(s, r) ==
  CASE drv = Pgx       -> pgxRollback(s, r)
    [] drv = PgxPool   -> pgxpoolRollback(s, r)
    [] drv = Postgres  -> postgresRollback(s, r)
    [] drv = Firestore -> firestoreRollback(s, r)
    [] drv = V1        -> v1Rollback(s, r)

SessionWatchRollback(s, e, r) ==
  CASE drv = Postgres  -> postgresWatchRollback(s, e, r)
    [] drv = Firestore -> firestoreWatchRollback(s, e, r)
    [] drv = V1        -> v1WatchRollback(s, e, r)

\* What an error producer handed to WatchRollback may return.
ProducerResults ==
  IF drv = V1 THEN {ErrNil, ErrCallback, ErrWrapped} ELSE {ErrNil, ErrCallback}

SessionBuilder(s) ==
  CASE drv = Pgx      -> pgxBuilder(s)
    [] drv = PgxPool  -> pgxpoolBuilder(s)
    [] drv = Postgres -> postgresBuilder(s)
    [] drv = V1       -> v1Segment(s)

SegmentExec(g, seg, s, r) ==
  CASE drv = Pgx      -> pgxSegmentExec(g, seg, s, r)
    [] drv = PgxPool  -> pgxpoolSegmentExec(g, seg, s, r)
    [] drv = Postgres -> postgresSegmentExec(g, seg, s, r)
    [] drv = V1       -> v1SegmentExec(g, seg, s, r)

SegmentQueryRow(g, seg, s, r) ==
  CASE drv = Pgx      -> pgxSegmentQueryRow(g, seg, s, r)
    [] drv = PgxPool  -> pgxpoolSegmentQueryRow(g, seg, s, r)
    [] drv = Postgres -> postgresSegmentQueryRow(g, seg, s, r)
    [] drv = V1       -> v1SegmentQueryRow(g, seg, s, r)

SegmentQuery(g, seg, s, r) ==
  CASE drv = Pgx      -> pgxSegmentQuery(g, seg, s, r)
    [] drv = PgxPool  -> pgxpoolSegmentQuery(g, seg, s, r)
    [] drv = Postgres -> postgresSegmentQuery(g, seg, s, r)
    [] drv = V1       -> v1SegmentQuery(g, seg, s, r)

SegmentQueryReturn(seg, e, c) ==
  CASE drv = Pgx      -> pgxSegmentQueryReturn(seg, e, c)
    [] drv = PgxPool  -> pgxpoolSegmentQueryReturn(seg, e, c)
    [] drv = Postgres -> postgresSegmentQueryReturn(seg, e, c)
    [] drv = V1       -> v1SegmentQueryReturn(seg, e, c)

\* ------------------------------------------------ mock: PGXMock, PGXPoolMock
ErrNoExpectation == "no expectation found"
ErrUnfulfilled   == "unfulfilled expectation"

\* A query is a sequence of tokens, so that a pattern can match a part of it.
MockQueries == {<<"a">>, <<"a", "b">>}
MockArgs    == {<<>>, <<1>>}
Goroutines  == 1..MaxGoroutines

\* basicExpectation.  A nil query and nil args are hasQuery = FALSE and
\* hasArgs = FALSE.  Three fields are not in the struct: served counts the
\* calls that were handed the expectation's returns, by is the goroutine that
\* wrote isFulfilled last (0: none), and sync says whether that write is
\* ordered before the later holders of the mock's mutex.
basicExpectation(method, hasQuery, query) ==
  [method |-> method, isFulfilled |-> FALSE, returns |-> ErrNil,
   hasQuery |-> hasQuery, query |-> query, hasArgs |-> FALSE, args |-> <<>>,
   served |-> 0, by |-> 0, sync |-> TRUE]

\* e.args = args; a call without arguments leaves the variadic slice nil.
WithArgs(e, args) == [e EXCEPT !.hasArgs = (args # <<>>), !.args = args]

WillReturnError(e, err) == [e EXCEPT !.returns = err]

\* regexp.MustCompile(regexp.QuoteMeta(pattern)).MatchString(query): the
\* pattern occurs somewhere in the query.
MatchString(pattern, query) ==
  \E i \in 0..(Len(query) - Len(pattern)) :
    SubSeq(query, i + 1, i + Len(pattern)) = pattern

\* match(method, args...); the call's query, when it has one, is args[0].
basicExpectationMatch(e, method, args) ==
  IF e.method # method THEN "method mismatch"
  ELSE IF e.hasQuery /\ ~MatchString(e.query, Head(args)) THEN "query does not match"
  ELSE IF e.hasArgs /\ e.args # (IF e.hasQuery THEN Tail(args) ELSE args)
  THEN "args mismatch"
  ELSE ErrNil

\* getReturns() run by goroutine t, which holds no lock while it writes.
basicExpectationGetReturns(e, t) ==
  [e EXCEPT !.isFulfilled = TRUE, !.served = @ + 1, !.by = t, !.sync = FALSE]

\* What goroutine t may read from the isFulfilled fields: the value written,
\* except that a write of another goroutine that nothing orders before the
\* read may or may not be seen.
Views(es, t) ==
  {v \in [1..Len(es) -> BOOLEAN] :
     \A i \in 1..Len(es) :
       (es[i].by \in {0, t} \/ es[i].sync) => v[i] = es[i].isFulfilled}

\* m.mu.Lock() ... m.mu.Unlock() by goroutine t: what t wrote before is
\* ordered before everything the later holders of the mutex do.
MutexHeld(es, t) ==
  [i \in 1..Len(es) |-> IF es[i].by = t THEN [es[i] EXCEPT !.sync = TRUE] ELSE es[i]]

\* The loop of findExpectation from place i on; seen[j] is what
\* e.fulfilled() answered for the j-th expectation.  0: no expectation.
RECURSIVE findExpectationFrom(_, _, _, _, _)
findExpectationFrom(es, seen, i, method, args) ==
  IF i > Len(es) THEN 0
  ELSE IF seen[i] THEN findExpectationFrom(es, seen, i + 1, method, args)
  ELSE IF basicExpectationMatch(es[i], method, args) = ErrNil THEN i
  ELSE findExpectationFrom(es, seen, i + 1, method, args)

\* A search that takes the matching expectation registered last.
RECURSIVE findExpectationLast(_, _, _, _)
findExpectationLast(es, seen, method, args) ==
  IF es = <<>> THEN 0
  ELSE IF ~seen[Len(es)] /\ basicExpectationMatch(es[Len(es)], method, args) = ErrNil
  THEN Len(es)
  ELSE findExpectationLast(SubSeq(es, 1, Len(es) - 1), seen, method, args)

findExpectation(es, seen, method, args) ==
  findExpectationFrom(es, seen, 1, method, args)

\* AllExpectationsMet()
AllExpectationsMet(es, seen) ==
  IF \E i \in 1..Len(es) : ~seen[i] THEN ErrUnfulfilled ELSE ErrNil

\* ExpectExec(query) and ExpectCommit(): the new expectation is appended.
ExpectExec(es, query) == Append(es, basicExpectation("Exec", TRUE, query))
ExpectCommit(es)      == Append(es, basicExpectation("Commit", FALSE, <<>>))

\* The calls made on the mock: Exec(ctx, query, args...) looks for
\* ("Exec", query, args...), Commit(ctx) for ("Commit").
MockCalls ==
  {[method |-> "Exec", args |-> <<q>> \o a] : q \in MockQueries, a \in MockArgs}
    \cup {[method |-> "Commit", args |-> <<>>]}

IdleG == [pc |-> "idle", e |-> 0, method |-> "none", args |-> <<>>]

\* What the caller saw of the last finished call on the mock; served is the
\* place of the expectation that served it (0: none).
Last(t, method, args, err, served) ==
  [t |-> t, method |-> method, args |-> args, err |-> err, served |-> served]

NoMock ==
  [expectations |-> <<>>, gor |-> [t \in Goroutines |-> IdleG],
   unmatched |-> 0, ncalls |-> 0, last |-> Last(0, "none", <<>>, ErrNil, 0)]

\* A call of goroutine t up to the return of findExpectation.
PGXMockFind(m, t, c, seen) ==
  LET es == MutexHeld(m.expectations, t)
      i  == findExpectation(es, seen, c.method, c.args)
  IN  IF i = 0
      THEN [m EXCEPT !.expectations = es,
                     !.ncalls = @ + 1,
                     !.unmatched = @ + 1,
                     !.last = Last(t, c.method, c.args, ErrNoExpectation, 0)]
      ELSE [m EXCEPT !.expectations = es,
                     !.ncalls = @ + 1,
                     !.gor[t] = [pc |-> "found", e |-> i,
                                 method |-> c.method, args |-> c.args]]

\* The rest of the call: e.getReturns(), and what it returned is handed on.
PGXMockReturn(m, t) ==
  LET g == m.gor[t]
  IN  [m EXCEPT !.expectations[g.e] = basicExpectationGetReturns(@, t),
                !.gor[t] = IdleG,
                !.last = Last(t, g.method, g.args, m.expectations[g.e].returns, g.e)]

\* A whole call of goroutine t with no other goroutine in between.
PGXMockCall(m, t, c, seen) ==
  LET f == PGXMockFind(m, t, c, seen)
  IN  IF f.gor[t].pc = "found" THEN PGXMockReturn(f, t) ELSE f

\* ------------------------------------------------------------- state
Init ==
  /\ drv \in Drivers
  /\ dcfg \in {OpenConfig(drv, opts) : opts \in OpenLists(drv)}
  /\ sess = NoSession
  /\ segs = [g \in Segs |-> NoSegment]
  /\ stack = <<>>
  /\ calls = <<>>
  /\ st = Idle
  /\ fc = Idle
  /\ ncommit = 0
  /\ ret = NoRet
  /\ mock = NoMock

Room(out) == Len(calls) + Len(out) <= MaxCalls

\* The backend answers the calls it receives: an operation that makes no
\* backend call is given no answer (r is ErrNil and is not read).
Answered(out, r) == out # <<>> \/ r = ErrNil

NextCommit == IF ncommit = 0 THEN 1 ELSE 2

\* The caller holds the session and no call on it is running.
CallerHolds ==
  /\ sess.alive
  /\ sess.owner = "caller"
  /\ fc.pc = "idle"

\* The session's builder is in someone's hands: the caller's, or the
\* StartTransaction body's while it runs.
BuilderHeld ==
  /\ sess.alive
  /\ fc.pc = "idle"
  /\ drv # Firestore
  /\ sess.owner = "st" => st.pc = "body"

\* ------------------------------------------------------------ actions
\* Driver.Begin(ctx, opts...)
Begin ==
  /\ ~sess.alive
  /\ st.pc = "idle"
  /\ \E opts \in OptLists(drv), r \in BackendResults :
       LET b == DriverBegin(opts, r)
       IN  /\ Answered(b.out, r)
           /\ Room(b.out)
           /\ sess' = b.sess
           /\ calls' = calls \o b.out
           /\ ret' = [Ret("Begin", 0, b.err, Len(b.out))
                        EXCEPT !.session = b.sess.alive,
                               !.answer = IF b.out = <<>> THEN "none" ELSE r]
           /\ dcfg' = DriverBeginDefaults(opts)
  /\ UNCHANGED <<mock, drv, segs, stack, st, fc, ncommit>>

\* Octobe.BeginTx(ctx, opts...) of v1
BeginTx ==
  /\ drv = V1
  /\ ~sess.alive
  /\ \E r \in BackendResults :
       LET b == v1BeginTx(BeginCtx, r)
       IN  /\ Room(b.out)
           /\ sess' = b.sess
           /\ calls' = calls \o b.out
           /\ ret' = [Ret("BeginTx", 0, b.err, Len(b.out)) EXCEPT !.session = b.sess.alive]
  /\ UNCHANGED <<mock, drv, dcfg, segs, stack, st, fc, ncommit>>

\* Session.Commit() of the pgx, pgxpool and postgres sessions, Scheme.Commit()
Commit ==
  /\ CallerHolds
  /\ drv # Firestore
  /\ \E r \in BackendResults :
       LET c == SessionCommit(sess, r)
       IN  /\ Answered(c.out, r)
           /\ Room(c.out)
           /\ sess' = c.sess
           /\ calls' = calls \o c.out
           /\ ret' = [Ret("Commit", 0, c.err, Len(c.out))
                        EXCEPT !.committed0 = sess.committed,
                               !.nth = NextCommit,
                               !.attempts = Len(c.out),
                               !.lastCommit = IF c.out = <<>> THEN "none" ELSE r]
  /\ ncommit' = NextCommit
  /\ UNCHANGED <<mock, drv, dcfg, segs, stack, st, fc>>

\* Session.Rollback()
Rollback ==
  /\ CallerHolds
  /\ \E r \in BackendResults :
       LET c == SessionRollback(sess, r)
       IN  /\ Answered(c.out, r)
           /\ Room(c.out)
           /\ sess' = c.sess
           /\ calls' = calls \o c.out
           /\ ret' = [Ret("Rollback", 0, c.err, Len(c.out))
                        EXCEPT !.committed0 = sess.committed]
  /\ UNCHANGED <<mock, drv, dcfg, segs, stack, st, fc, ncommit>>

\* Session.WatchRollback(cb) of the postgres and firestore sessions, which
\* returns nothing, and Scheme.WatchRollback(cb), which returns an error;
\* e is what cb returns when it is invoked.
WatchRollback ==
  /\ CallerHolds
  /\ drv \in {Postgres, Firestore, V1}
  /\ \E e \in ProducerResults, r \in BackendResults :
       LET w == SessionWatchRollback(sess, e, r)
       IN  /\ Answered(w.out, r)
           /\ w.cb \/ e = ErrNil
           /\ Room(w.out)
           /\ sess' = w.sess
           /\ calls' = calls \o w.out
           /\ ret' = [Ret("WatchRollback", 0, IF drv = V1 THEN w.err ELSE "none",
                           Len(w.out))
                        EXCEPT !.committed0 = sess.committed,
                               !.cb = w.cb,
                               !.cbErr = IF w.cb THEN e ELSE ErrNil,
                               !.rb = w.rb,
                               !.rbErr = w.rbErr,
                               !.errs = w.errs]
  /\ UNCHANGED <<mock, drv, dcfg, segs, stack, st, fc, ncommit>>

\* builder(query): the next segment of the session
Builder ==
  /\ BuilderHeld
  /\ \E g \in DOMAIN segs :
       /\ ~segs[g].made
       /\ \A h \in DOMAIN segs : h < g => segs[h].made
       /\ segs' = [segs EXCEPT ![g] = SessionBuilder(sess)]
  /\ UNCHANGED <<mock, drv, dcfg, sess, stack, calls, st, fc, ret, ncommit>>

\* Segment.Exec()
Exec ==
  /\ BuilderHeld
  /\ \E g \in DOMAIN segs, r \in BackendResults :
       LET x == SegmentExec(g, segs[g], sess, r)
       IN  /\ segs[g].made
           /\ Answered(x.out, r)
           /\ Room(x.out)
           /\ segs' = [segs EXCEPT ![g] = [x.seg EXCEPT !.called = TRUE]]
           /\ calls' = calls \o x.out
           /\ ret' = [Ret("Exec", g, x.err, Len(x.out))
                        EXCEPT !.later = segs[g].called,
                               !.used0 = segs[g].used]
  /\ UNCHANGED <<mock, drv, dcfg, sess, stack, st, fc, ncommit>>

\* Segment.QueryRow(dest...)
QueryRow ==
  /\ BuilderHeld
  /\ \E g \in DOMAIN segs, r \in BackendResults :
       LET x == SegmentQueryRow(g, segs[g], sess, r)
       IN  /\ segs[g].made
           /\ Answered(x.out, r)
           /\ Room(x.out)
           /\ segs' = [segs EXCEPT ![g] = [x.seg EXCEPT !.called = TRUE]]
           /\ calls' = calls \o x.out
           /\ ret' = [Ret("QueryRow", g, x.err, Len(x.out))
                        EXCEPT !.later = segs[g].called,
                               !.used0 = segs[g].used]
  /\ UNCHANGED <<mock, drv, dcfg, sess, stack, st, fc, ncommit>>

\* Segment.Query(cb) up to the point where it returns or enters cb(rows)
Query ==
  /\ BuilderHeld
  /\ \E g \in DOMAIN segs, r \in BackendResults :
       LET x == SegmentQuery(g, segs[g], sess, r)
       IN  /\ segs[g].made
           /\ Answered(x.out, r)
           /\ Room(x.out)
           /\ calls' = calls \o x.out
           /\ IF x.running
              THEN /\ segs' = [segs EXCEPT ![g] = [x.seg EXCEPT !.called = TRUE]]
                   /\ stack' = Append(stack, [seg |-> g, later |-> segs[g].called])
                   /\ ret' = ret
              ELSE /\ segs' = [segs EXCEPT ![g] = [x.seg EXCEPT !.called = TRUE]]
                   /\ stack' = stack
                   /\ ret' = [Ret("Query", g, x.err, Len(x.out))
                                EXCEPT !.later = segs[g].called,
                                       !.used0 = segs[g].used]
  /\ UNCHANGED <<mock, drv, dcfg, sess, st, fc, ncommit>>

\* The innermost running row callback returns e, and Query returns with it.
QueryReturn ==
  /\ stack # <<>>
  /\ BuilderHeld
  /\ \E e \in {ErrNil, ErrCallback}, c \in BackendResults :
       LET top == stack[Len(stack)]
           x   == SegmentQueryReturn(segs[top.seg], e, c)
       IN  /\ drv = V1 \/ c = ErrNil     \* rows.Close() has a result in v1 only
           /\ segs' = [segs EXCEPT ![top.seg] = [x.seg EXCEPT !.called = TRUE]]
           /\ stack' = SubSeq(stack, 1, Len(stack) - 1)
           /\ ret' = [Ret("Query", top.seg, x.err, 1)
                        EXCEPT !.later = top.later, !.cbErr = e, !.errs = x.errs]
  /\ UNCHANGED <<mock, drv, dcfg, sess, calls, st, fc, ncommit>>

\* session.Commit() of the firestore session, up to its loop
FsCommit ==
  /\ CallerHolds
  /\ drv = Firestore
  /\ LET c == firestoreCommitEnter(sess)
     IN  /\ fc' = c.loop
         /\ ret' = IF c.done
                   THEN [Ret("Commit", 0, c.err, 0)
                           EXCEPT !.committed0 = sess.committed, !.nth = NextCommit]
                   ELSE ret
  /\ ncommit' = NextCommit
  /\ UNCHANGED <<mock, drv, dcfg, sess, segs, stack, calls, st>>

\* One commit request of the loop and the backend's answer to it
FsCommitAttempt ==
  /\ fc.pc = "attempt"
  /\ \E r \in CommitResults :
       LET a == firestoreCommitAttempt(sess, fc, r)
       IN  /\ Room(a.out)
           /\ sess' = a.sess
           /\ calls' = calls \o a.out
           /\ fc' = IF a.done THEN Idle ELSE a.loop
           /\ ret' = IF a.done
                     THEN [Ret("Commit", 0, a.err, a.loop.issued)
                             EXCEPT !.committed0 = fc.committed0,
                                    !.nth = ncommit,
                                    !.attempts = a.loop.issued,
                                    !.lastCommit = a.loop.lastCommit,
                                    !.sleepErr = a.loop.sleepErr,
                                    !.sleeps = a.loop.sleeps,
                                    !.writes0 = a.loop.writes0]
                     ELSE ret
  /\ UNCHANGED <<mock, drv, dcfg, segs, stack, st, ncommit>>

\* The backoff sleep after an aborted attempt; e is what gax.Sleep returns.
FsCommitSleep ==
  /\ fc.pc = "sleep"
  /\ \E e \in SleepResults :
       LET z == firestoreCommitSleep(sess, fc, e)
       IN  /\ sess' = z.sess
           /\ fc' = z.loop
  /\ UNCHANGED <<mock, drv, dcfg, segs, stack, calls, st, ret, ncommit>>

\* Commit leaves its loop and returns.
FsCommitAfter ==
  /\ fc.pc = "after"
  /\ \E r \in BackendResults :
       LET a == firestoreCommitAfter(sess, fc, r)
       IN  /\ Answered(a.out, r)
           /\ Room(a.out)
           /\ sess' = a.sess
           /\ calls' = calls \o a.out
           /\ ret' = [Ret("Commit", 0, a.err, fc.issued + Len(a.out))
                        EXCEPT !.committed0 = fc.committed0,
                               !.nth = ncommit,
                               !.attempts = fc.issued,
                               !.lastCommit = fc.lastCommit,
                               !.sleepErr = fc.sleepErr,
                               !.sleeps = fc.sleeps,
                               !.writes0 = fc.writes0,
                               !.rb = (a.out # <<>>)]
  /\ fc' = Idle
  /\ UNCHANGED <<mock, drv, dcfg, segs, stack, st, ncommit>>

\* The writes staged on the session so far: those in its buffer and those a
\* commit request has carried.
Staged ==
  {sess.writes[i] : i \in 1..Len(sess.writes)}
    \cup UNION {{calls[i].writes[j] : j \in 1..Len(calls[i].writes)} : i \in 1..Len(calls)}

\* A segment of the session's builder stages one write, the next in line.
FsStage ==
  /\ CallerHolds
  /\ drv = Firestore
  /\ firestoreBuilder(sess).transaction
  /\ Cardinality(Staged) < MaxWrites
  /\ sess' = firestoreAddTransactionalWrites(sess, Cardinality(Staged) + 1)
  /\ UNCHANGED <<mock, drv, dcfg, segs, stack, calls, st, fc, ncommit, ret>>

\* Driver.StartTransaction(ctx, body, opts...): Begin, then the body runs.
StartTransaction ==
  /\ drv \in LockDrivers
  /\ ~sess.alive
  /\ st.pc = "idle"
  /\ \E opts \in OptLists(drv), r \in BackendResults :
       LET b == DriverBegin(opts, r)
       IN  /\ Room(b.out)
           /\ calls' = calls \o b.out
           /\ IF b.err # ErrNil
              THEN /\ sess' = sess
                   /\ st' = [pc |-> "done", base |-> Len(calls)]
                   /\ ret' = Ret("StartTransaction", 0, b.err, Len(b.out))
              ELSE /\ sess' = [b.sess EXCEPT !.owner = "st"]
                   /\ st' = [pc |-> "body", base |-> Len(calls)]
                   /\ ret' = ret
  /\ UNCHANGED <<mock, drv, dcfg, segs, stack, fc, ncommit>>

\* The body returns e or panics, and StartTransaction ends the session.
StartTransactionReturn ==
  /\ drv \in LockDrivers
  /\ st.pc = "body"
  /\ stack = <<>>
  /\ \E how \in {"return", "panic"}, e \in {ErrNil, ErrBody}, r \in BackendResults :
       LET z == StartTransactionEnd(sess, how, e, "panic value",
                                    SessionRollback(sess, r), SessionCommit(sess, r))
       IN  /\ how = "panic" => e = ErrNil
           /\ Room(z.out)
           /\ sess' = z.sess
           /\ calls' = calls \o z.out
           /\ ret' = [Ret("StartTransaction", 0, z.err, Len(calls) + Len(z.out) - st.base)
                        EXCEPT !.panic = z.panic,
                               !.body = IF how = "panic" THEN "panic"
                                        ELSE IF e # ErrNil THEN "error" ELSE "nil",
                               !.cbErr = e]
  /\ st' = [st EXCEPT !.pc = "done"]
  /\ UNCHANGED <<mock, drv, dcfg, segs, stack, fc, ncommit>>

\* Octobe.WatchTransaction(ctx, cb, opts...) of v1: BeginTx, then cb runs.
WatchTransaction ==
  /\ drv = V1
  /\ ~sess.alive
  /\ st.pc = "idle"
  /\ \E r \in BackendResults :
       LET b == v1BeginTx(BeginCtx, r)
       IN  /\ Room(b.out)
           /\ calls' = calls \o b.out
           /\ IF b.err # ErrNil
              THEN /\ sess' = sess
                   /\ st' = [pc |-> "done", base |-> Len(calls)]
                   /\ ret' = Ret("WatchTransaction", 0, b.err, Len(b.out))
              ELSE /\ sess' = [b.sess EXCEPT !.owner = "st"]
                   /\ st' = [pc |-> "body", base |-> Len(calls)]
                   /\ ret' = ret
  /\ UNCHANGED <<mock, drv, dcfg, segs, stack, fc, ncommit>>

\* cb returns e, and WatchTransaction rolls back or commits.
WatchTransactionReturn ==
  /\ drv = V1
  /\ st.pc = "body"
  /\ stack = <<>>
  /\ \E e \in {ErrNil, ErrBody, ErrWrapped}, r \in BackendResults :
       LET z == v1WatchTransactionEnd(sess, e, r)
       IN  /\ Room(z.out)
           /\ sess' = z.sess
           /\ calls' = calls \o z.out
           /\ ret' = [Ret("WatchTransaction", 0, z.err, Len(calls) + Len(z.out) - st.base)
                        EXCEPT !.body = IF e # ErrNil THEN "error" ELSE "nil",
                               !.cb = TRUE,
                               !.cbErr = e,
                               !.rb = z.rb,
                               !.rbErr = z.rbErr,
                               !.errs = z.errs]
  /\ st' = [st EXCEPT !.pc = "done"]
  /\ UNCHANGED <<mock, drv, dcfg, segs, stack, fc, ncommit>>

Next ==
  \/ Begin
  \/ BeginTx
  \/ Commit
  \/ Rollback
  \/ WatchRollback
  \/ Builder
  \/ Exec
  \/ QueryRow
  \/ Query
  \/ QueryReturn
  \/ FsCommit
  \/ FsCommitAttempt
  \/ FsCommitSleep
  \/ FsCommitAfter
  \/ StartTransaction
  \/ StartTransactionReturn
  \/ WatchTransaction
  \/ WatchTransactionReturn

\* The drivers side by side, on sessions without staged writes.
Spec == Init /\ [][Next]_vars

\* The Firestore driver on its own: Begin, writes staged on the session,
\* and Commit (Rollback leaves a Firestore session as it is).
FsInit == Init /\ drv = Firestore

FsNext ==
  \/ Begin
  \/ FsStage
  \/ FsCommit
  \/ FsCommitAttempt
  \/ FsCommitSleep
  \/ FsCommitAfter

FsSpec == FsInit /\ [][FsNext]_vars

\* A Commit call is started only while the calls it may make can still be
\* recorded.
FsCommitWithin ==
  /\ Len(calls) + sess.cfg.maxAttempts <= MaxCalls
  /\ FsCommit

FsLiveNext ==
  \/ Begin
  \/ FsCommitWithin
  \/ FsCommitAttempt
  \/ FsCommitSleep
  \/ FsCommitAfter

\* The Firestore Commit with a backend that answers every commit request and
\* a timer or context that ends every sleep.
FsLiveSpec ==
  /\ FsInit
  /\ [][FsLiveNext]_vars
  /\ WF_vars(FsCommitAttempt)
  /\ WF_vars(FsCommitSleep)
  /\ WF_vars(FsCommitAfter)

\* The pgx and pgxpool sessions and their segments on their own, with one
\* segment more than the drivers side by side are given.
RoutedSegs == 1..(MaxSeg + 1)

SegInit ==
  /\ drv \in LockDrivers
  /\ dcfg = OpenConfig(drv, <<>>)
  /\ sess = NoSession
  /\ segs = [g \in RoutedSegs |-> NoSegment]
  /\ stack = <<>>
  /\ calls = <<>>
  /\ st = Idle
  /\ fc = Idle
  /\ ncommit = 0
  /\ ret = NoRet
  /\ mock = NoMock

SegNext ==
  \/ Begin
  \/ Builder
  \/ Exec
  \/ QueryRow
  \/ Query
  \/ QueryReturn

SegSpec == SegInit /\ [][SegNext]_vars

\* ExpectExec(query).WithArgs(args...).WillReturnError(err) or
\* ExpectCommit().WillReturnError(err), before any call is running
MockExpect ==
  /\ Len(mock.expectations) < MaxExpect
  /\ \A t \in Goroutines : mock.gor[t].pc = "idle"
  /\ \E method \in {"Exec", "Commit"}, q \in MockQueries, a \in MockArgs,
        r \in BackendResults :
       LET es == IF method = "Exec" THEN ExpectExec(mock.expectations, q)
                 ELSE ExpectCommit(mock.expectations)
           e  == IF method = "Exec" THEN WithArgs(es[Len(es)], a) ELSE es[Len(es)]
       IN  /\ method = "Commit" => (q = <<"a">> /\ a = <<>>)
           /\ mock' = [mock EXCEPT !.expectations = [es EXCEPT ![Len(es)] = WillReturnError(e, r)],
                                   !.last = Last(0, "Expect", <<>>, ErrNil, 0)]
  /\ UNCHANGED <<drv, dcfg, sess, segs, stack, calls, st, fc, ncommit, ret>>

\* Exec(ctx, query, args...) or Commit(ctx) on the mock, from one goroutine
MockCall ==
  /\ mock.ncalls < MaxMockCalls
  /\ \E c \in MockCalls, seen \in Views(mock.expectations, 1) :
       mock' = PGXMockCall(mock, 1, c, seen)
  /\ UNCHANGED <<drv, dcfg, sess, segs, stack, calls, st, fc, ncommit, ret>>

\* AllExpectationsMet() on the mock, from one goroutine
MockAllExpectationsMet ==
  /\ \E seen \in Views(mock.expectations, 1) :
       mock' = [mock EXCEPT
                  !.expectations = MutexHeld(@, 1),
                  !.last = Last(1, "AllExpectationsMet", <<>>,
                                AllExpectationsMet(mock.expectations, seen), 0)]
  /\ UNCHANGED <<drv, dcfg, sess, segs, stack, calls, st, fc, ncommit, ret>>

\* The expectations are registered before the goroutines start.
MockExpectFirst ==
  /\ mock.ncalls = 0
  /\ MockExpect

\* A goroutine's call up to the return of findExpectation
MockFind ==
  /\ mock.ncalls < MaxMockCalls
  /\ \E t \in Goroutines, c \in MockCalls :
       /\ mock.gor[t].pc = "idle"
       /\ \E seen \in Views(mock.expectations, t) :
            mock' = PGXMockFind(mock, t, c, seen)
  /\ UNCHANGED <<drv, dcfg, sess, segs, stack, calls, st, fc, ncommit, ret>>

\* The goroutine's call goes on to getReturns() and returns.
MockReturn ==
  /\ \E t \in Goroutines :
       /\ mock.gor[t].pc = "found"
       /\ mock' = PGXMockReturn(mock, t)
  /\ UNCHANGED <<drv, dcfg, sess, segs, stack, calls, st, fc, ncommit, ret>>

\* drv says which mock it is: PGXMock for pgx, PGXPoolMock for pgxpool.
MockInit == Init /\ drv \in LockDrivers

MockNext ==
  \/ MockExpect
  \/ MockCall
  \/ MockAllExpectationsMet

\* The mock used from one goroutine.
MockSpec == MockInit /\ [][MockNext]_vars

MockRaceNext ==
  \/ MockExpectFirst
  \/ MockFind
  \/ MockReturn

\* The mock called from several goroutines at once.
MockRaceSpec == MockInit /\ [][MockRaceNext]_vars

\* ------------------------------------------------------------ properties
SegmentOps == {"Exec", "QueryRow", "Query"}

\* The error a used segment answers with: ErrUsed in v1, ErrAlreadyUsed since.
UsedError == IF drv = V1 THEN ErrUsed ELSE ErrAlreadyUsed

\* The backend calls made for segment g.
BackendCallsOf(g) == {i \in 1..Len(calls) : calls[i].seg = g}

\* The backend calls named op.
BackendCalls(op) == {i \in 1..Len(calls) : calls[i].op = op}

\* The backend calls named op that StartTransaction made or let its body make.
StCalls(op) == Cardinality({i \in (st.base + 1)..Len(calls) : calls[i].op = op})

\* A backend commit of the session has succeeded.
CommitSucceeded == \E i \in BackendCalls("Commit") : calls[i].res = ErrNil

\* The session was begun without a transaction, on a driver that guards
\* Commit and Rollback by it.
NonTransactional ==
  /\ drv \in {Pgx, PgxPool, Firestore}
  /\ sess.alive
  /\ ~sess.cfg.transaction

\* C1: on a segment of a pgx or pgxpool session, or of a v1 Scheme, every
\* call of Exec, QueryRow or Query that comes after another call on the same
\* segment returns the already-used error without a backend call, and the
\* backend receives at most one call per segment.
C1_SingleUseSegment ==
  drv \in {Pgx, PgxPool, V1} =>
    /\ (ret.op \in SegmentOps /\ ret.later) =>
         (ret.err = UsedError /\ ret.issued = 0)
    /\ \A g \in Segs : Cardinality(BackendCallsOf(g)) <= 1

\* C2: on a transactional pgx or pgxpool session at most one backend commit
\* is ever issued, and every Commit call after the session's first returns an
\* error and issues no backend call.
C2_CommitOnce ==
  (drv \in LockDrivers /\ sess.alive /\ sess.cfg.transaction) =>
    /\ Cardinality(BackendCalls("Commit")) <= 1
    /\ (ret.op = "Commit" /\ ret.nth = 2) =>
         (ret.err # ErrNil /\ ret.issued = 0)

\* A second Commit came back on a session whose first Commit reached the backend.
C2_SecondCommit ==
  /\ drv \in LockDrivers
  /\ sess.alive
  /\ sess.cfg.transaction
  /\ ret.op = "Commit"
  /\ ret.nth = 2
  /\ ret.err = ErrCommitted
  /\ BackendCalls("Commit") # {}

\* C3: on a pgx, pgxpool or Firestore session begun without a transaction,
\* Commit returns "cannot commit without transaction" and Rollback returns
\* "cannot rollback without transaction", however often and in whatever order
\* they are called; neither reaches the backend and the session keeps the
\* state Begin gave it, committed = false included.
C3_NonTransactionalGuard ==
  NonTransactional =>
    /\ BackendCalls("Commit") = {}
    /\ BackendCalls("Rollback") = {}
    /\ ret.op = "Commit" => (ret.err = ErrCommitNoTx /\ ret.issued = 0)
    /\ ret.op = "Rollback" => (ret.err = ErrRollbackNoTx /\ ret.issued = 0)
    /\ ~sess.committed
    /\ ~sess.tx
    /\ sess.txId = 0
    /\ sess.writes = <<>>

\* Rollback was refused after Commit had been refused more than once.
C3_RollbackAfterCommits ==
  /\ NonTransactional
  /\ ncommit = 2
  /\ ret.op = "Rollback"
  /\ ret.err = ErrRollbackNoTx
  /\ ret.issued = 0

\* C4: a Commit of a read-write transactional Firestore session with
\* maxAttempts = N >= 1 whose every commit request was answered Aborted, and
\* whose sleeps all ran to their end, has issued exactly N commit requests and
\* returns the last Aborted error.
C4_RetryBound ==
  ( /\ drv = Firestore
    /\ fc.pc = "idle"
    /\ ret.op = "Commit"
    /\ sess.cfg.transaction
    /\ ~sess.cfg.readOnly
    /\ sess.cfg.maxAttempts >= 1
    /\ ret.lastCommit = ErrAborted
    /\ ret.sleepErr = ErrNil ) =>
    /\ ret.attempts = sess.cfg.maxAttempts
    /\ ret.err = ErrAborted

\* C5: a Firestore Commit whose backoff sleep was cut short by the context
\* issues no further commit request and returns the cancellation error
\* (Canceled or DeadlineExceeded), not the Aborted one.
C5_RetryCancellation ==
  ( /\ drv = Firestore
    /\ fc.pc = "idle"
    /\ ret.op = "Commit"
    /\ ret.sleepErr \in {ErrCanceled, ErrDeadline} ) =>
    /\ ret.err = ret.sleepErr
    /\ ret.lastCommit = ErrAborted

\* C6: when the body of StartTransaction returns a non-nil error e, the
\* backend has seen exactly one begin, exactly one rollback and no commit,
\* and StartTransaction returns e.
C6_RollbackOnError ==
  (ret.op = "StartTransaction" /\ ret.body = "error") =>
    /\ StCalls("BeginTx") = 1
    /\ StCalls("Rollback") = 1
    /\ StCalls("Commit") = 0
    /\ ret.err = ret.cbErr

\* C7: when the body of StartTransaction panics with value p, exactly one
\* backend rollback and no backend commit is issued, and the caller observes
\* the panic with the same p rather than an error return.
C7_RollbackOnPanic ==
  (ret.op = "StartTransaction" /\ ret.body = "panic") =>
    /\ StCalls("Rollback") = 1
    /\ StCalls("Commit") = 0
    /\ ret.panic = "panic value"
    /\ ret.err = "none"

\* C8: when the body of StartTransaction returns nil, the backend has seen
\* exactly one begin, first, then the body's statements, then exactly one
\* commit, last, and no rollback; StartTransaction returns what the commit
\* returned.
C8_SuccessPath ==
  (ret.op = "StartTransaction" /\ ret.body = "nil") =>
    /\ StCalls("BeginTx") = 1
    /\ StCalls("Commit") = 1
    /\ StCalls("Rollback") = 0
    /\ calls[st.base + 1].op = "BeginTx"
    /\ calls[Len(calls)].op = "Commit"
    /\ ret.err = calls[Len(calls)].res
    /\ ret.panic = "none"

\* C9: WatchRollback(cb) on a postgres (v2) or Firestore session attempts a
\* Rollback when no commit of the session has succeeded; when one has, it
\* invokes cb and attempts a Rollback exactly when cb returns a non-nil
\* error, so that after a successful Commit and a nil from cb no backend
\* rollback is issued.
C9_WatchRollbackRule ==
  (drv \in {Postgres, Firestore} /\ ret.op = "WatchRollback") =>
    /\ ~CommitSucceeded => ret.rb
    /\ CommitSucceeded =>
         /\ ret.cb
         /\ ret.rb <=> (ret.cbErr # ErrNil)
         /\ ret.cbErr = ErrNil => ret.issued = 0

\* C10: when WatchRollback on a postgres (v2) or Firestore session attempts
\* a Rollback and the Rollback fails, the rollback's error is among the
\* errors the caller is handed.
C10_RollbackErrorKept ==
  ( /\ drv \in {Postgres, Firestore}
    /\ ret.op = "WatchRollback"
    /\ ret.rb
    /\ ret.rbErr # ErrNil ) =>
    \E i \in 1..Len(ret.errs) : ret.errs[i] = ret.rbErr

\* The non-nil errors a caller may ask a compound error for.
Targets == {ErrCallback, ErrBody, ErrWrapped, ErrBackend, ErrUsed}

\* The non-nil members of a compound error.
Members(es) == {es[i] : i \in 1..Len(es)} \ {ErrNil}

\* C11: when the error producer of Scheme.WatchRollback, or the callback of
\* Octobe.WatchTransaction, returns an error e and the Rollback it triggers
\* returns r, the caller is handed a compound error of e and r: Is and As are
\* true of a target exactly when a member matches it, so the compound matches
\* e, and r when r is an error; a nil member matches nothing and is left out
\* of the message.
C11_CompoundError ==
  (drv = V1 /\ ret.op \in {"WatchRollback", "WatchTransaction"} /\ ret.cbErr # ErrNil) =>
    /\ ret.err = "errs"
    /\ ret.errs = <<ret.cbErr, ret.rbErr>>
    /\ errsIs(ret.errs, ret.cbErr)
    /\ errsAs(ret.errs, ret.cbErr)
    /\ ret.rbErr # ErrNil => (errsIs(ret.errs, ret.rbErr) /\ errsAs(ret.errs, ret.rbErr))
    /\ \A t \in Targets :
         /\ errsIs(ret.errs, t) <=> (\E m \in Members(ret.errs) : errorsIs(m, t))
         /\ errsAs(ret.errs, t) <=> (\E m \in Members(ret.errs) : errorsIs(m, t))
    /\ Len(errsError(ret.errs)) = Cardinality({i \in 1..Len(ret.errs) : ret.errs[i] # ErrNil})
    /\ \A i \in 1..Len(errsError(ret.errs)) : errsError(ret.errs)[i] # ErrNil \o "."

\* WatchTransaction handed back a wrapped callback error together with the
\* error of the rollback it triggered.
C11_BothMembers ==
  /\ drv = V1
  /\ ret.op = "WatchTransaction"
  /\ ret.cbErr = ErrWrapped
  /\ ret.rbErr = ErrBackend
  /\ errsIs(ret.errs, ErrBody)
  /\ errsIs(ret.errs, ErrBackend)

\* C12: a call of the v1 WatchTransaction issues exactly one backend begin.
\* When the begin fails, the callback is not invoked (no statement reaches
\* the backend) and neither commit nor rollback is issued; when the callback,
\* which runs statements on the scheme, returns nil, exactly one commit and
\* no rollback is issued and the commit's result is returned; when it returns
\* an error, exactly one rollback and no commit is issued and the result is a
\* non-nil error.  Commit and rollback are never both issued.
C12_WatchTransactionLifecycle ==
  (drv = V1 /\ ret.op = "WatchTransaction") =>
    /\ StCalls("BeginTx") = 1
    /\ calls[st.base + 1].op = "BeginTx"
    /\ ret.body = "none" =>
         /\ ~ret.cb
         /\ ret.issued = 1
         /\ StCalls("Commit") = 0
         /\ StCalls("Rollback") = 0
         /\ ret.err # ErrNil
    /\ ret.body = "nil" =>
         /\ StCalls("Commit") = 1
         /\ StCalls("Rollback") = 0
         /\ calls[Len(calls)].op = "Commit"
         /\ ret.err = calls[Len(calls)].res
    /\ ret.body = "error" =>
         /\ StCalls("Rollback") = 1
         /\ StCalls("Commit") = 0
         /\ ret.err # ErrNil
    /\ ~(StCalls("Commit") > 0 /\ StCalls("Rollback") > 0)

\* The callback ran a statement and failed, and WatchTransaction rolled back.
C12_RolledBack ==
  /\ drv = V1
  /\ ret.op = "WatchTransaction"
  /\ ret.body = "error"
  /\ ret.issued = 3
  /\ calls[Len(calls)].op = "Rollback"

\* C13: Commit on a transactional pgx or pgxpool session that is not yet
\* committed issues exactly one backend commit call, with no retry and no
\* sleep, and returns what the backend answered: nil, or the same error.
C13_CommitPassThrough ==
  ( /\ drv \in LockDrivers
    /\ ret.op = "Commit"
    /\ sess.cfg.transaction
    /\ ~ret.committed0 ) =>
    /\ ret.issued = 1
    /\ ret.attempts = 1
    /\ fc.pc = "idle"
    /\ Cardinality(BackendCalls("Commit")) = 1
    /\ \A i \in BackendCalls("Commit") : calls[i].res = ret.err
    /\ ret.err = ret.lastCommit

\* A first Commit on a pgxpool session came back with the backend's error.
C13_CommitFailed ==
  /\ drv = PgxPool
  /\ ret.op = "Commit"
  /\ sess.cfg.transaction
  /\ ~ret.committed0
  /\ ret.err = ErrBackend
  /\ ret.issued = 1

\* C14: a pgx, pgxpool or Firestore session is marked committed only when a
\* backend commit call it made returned success.
C14_CommittedOnlyOnSuccess ==
  (drv \in {Pgx, PgxPool, Firestore} /\ sess.committed) => CommitSucceeded

\* C15: once a transactional pgx or pgxpool session has been committed, a
\* direct Rollback returns an error and issues no backend rollback call.
C15_RollbackAfterCommit ==
  ( /\ drv \in LockDrivers
    /\ ret.op = "Rollback"
    /\ sess.cfg.transaction
    /\ ret.committed0
    /\ CommitSucceeded ) =>
    /\ ret.err # ErrNil
    /\ ret.issued = 0
    /\ BackendCalls("Rollback") = {}

\* C16: once a Commit on a transactional Firestore or postgres (v2) session
\* has returned, every later Commit on it fails with an error and issues no
\* backend commit request.
C16_SecondCommitRefused ==
  ( /\ drv \in {Postgres, Firestore}
    /\ fc.pc = "idle"
    /\ ret.op = "Commit"
    /\ sess.cfg.transaction
    /\ ret.nth = 2 ) =>
    /\ ret.err # ErrNil
    /\ ret.attempts = 0
    /\ ret.issued = 0

\* C17: when the backend fails to establish the transaction a Begin asked
\* for, Begin returns no session and returns the backend's error as it is,
\* and no commit or rollback is issued.
C17_BeginFailure ==
  (ret.op = "Begin" /\ ret.answer \notin {"none", ErrNil}) =>
    /\ ~ret.session
    /\ ret.err = ret.answer
    /\ ret.issued = 1
    /\ BackendCalls("Commit") = {}
    /\ BackendCalls("Rollback") = {}

\* A Begin that asked for a transaction failed at the backend.
C17_BeginFailed ==
  /\ ret.op = "Begin"
  /\ ret.answer = ErrBackend
  /\ ret.err = ErrBackend
  /\ ~sess.alive
  /\ Len(calls) > 0

\* C18: a Begin whose effective configuration asks for no transaction issues
\* no backend begin call and yields a session without a transaction handle;
\* a Begin whose effective configuration asks for one issues exactly one
\* backend begin-transaction call.
C18_BeginIffRequested ==
  (ret.op = "Begin" /\ ret.session /\ sess.alive) =>
    /\ sess.cfg.transaction =>
         /\ ret.issued = 1
         /\ sess.tx \/ sess.txId # 0
    /\ ~sess.cfg.transaction =>
         /\ ret.issued = 0
         /\ ~sess.tx
         /\ sess.txId = 0

\* C19: when a Firestore Commit stops without a successful backend commit,
\* on a non-Aborted error or with its attempts used up, a backend rollback
\* request for the session's transaction is issued before Commit returns.
C19_FailedCommitRolledBack ==
  ( /\ drv = Firestore
    /\ fc.pc = "idle"
    /\ ret.op = "Commit"
    /\ sess.txId # 0
    /\ ret.lastCommit \in {ErrAborted, ErrUnavailable} ) =>
    /\ ret.rb
    /\ calls[Len(calls)].op = "Rollback"
    /\ calls[Len(calls)].txId = sess.txId

\* C20: Commit on a transactional Firestore session returns nil only if one
\* of the commit requests it issued returned success, whatever maxAttempts
\* is and whatever the backend answers.
C20_FailedCommitReported ==
  ( /\ drv = Firestore
    /\ fc.pc = "idle"
    /\ ret.op = "Commit"
    /\ sess.txId # 0
    /\ ret.err = ErrNil ) =>
    /\ ret.attempts >= 1
    /\ ret.lastCommit = ErrNil

\* The field an option sets and the value it gives it.
OptField(o) ==
  CASE o.name \in {"WithPGXTxOptions", "WithTransaction", "WithoutTransaction"} -> "transaction"
    [] o.name = "WithReadOnly"    -> "readOnly"
    [] o.name = "WithMaxAttempts" -> "maxAttempts"
    [] o.name = "WithDatabase"    -> "database"

OptValue(o) ==
  CASE o.name \in {"WithPGXTxOptions", "WithTransaction", "WithReadOnly"} -> TRUE
    [] o.name = "WithoutTransaction" -> FALSE
    [] OTHER -> o.arg

\* The defaults d overlaid with opts: every field has the value of the last
\* option of opts that sets it, and d's value when none does.
Layered(d, opts) ==
  [f \in DOMAIN d |->
     LET setters == {i \in 1..Len(opts) : OptField(opts[i]) = f}
     IN  IF setters = {} THEN d[f]
         ELSE OptValue(opts[CHOOSE i \in setters : \A j \in setters : j <= i])]

BeginEnabled == ~sess.alive /\ st.pc = "idle"

C23_BeginContext ==
  (drv \in LockDrivers \cup {Firestore}) =>
    /\ \A i \in 1..Len(calls) : calls[i].ctx = BeginCtx
    /\ fc.pc = "sleep" => sess.ctx = BeginCtx

\* The call that finished last is a call of a segment that failed: it
\* returned an error other than the one a used segment answers with.
SegmentCallFailed ==
  /\ ret.op \in SegmentOps
  /\ ret.err \notin {ErrNil, UsedError}

\* C24: a segment whose Exec, QueryRow or Query has returned an error (from
\* the backend, the scan or the row callback) is marked used, so that every
\* execution attempt made on it from then on, whatever the backend would
\* answer, returns the already-used error and reaches no backend; a call
\* that starts on a used segment is refused in that way.
C24_FailedSegmentUsed ==
  (drv # Firestore) =>
    /\ SegmentCallFailed =>
         LET g == ret.seg
         IN  /\ segs[g].used
             /\ \A r \in BackendResults :
                  LET e == SegmentExec(g, segs[g], sess, r)
                      q == SegmentQueryRow(g, segs[g], sess, r)
                      y == SegmentQuery(g, segs[g], sess, r)
                  IN  /\ e.err = UsedError /\ e.out = <<>>
                      /\ q.err = UsedError /\ q.out = <<>>
                      /\ y.err = UsedError /\ y.out = <<>> /\ ~y.running
    /\ (ret.op \in SegmentOps /\ ret.used0) => (ret.err = UsedError /\ ret.issued = 0)
    /\ \A g \in Segs : segs[g].used =>
         SegmentExec(g, segs[g], sess, ErrNil).err = UsedError

\* An Exec on a pgx segment came back with the backend's error, the
\* segment's only backend call, and left the segment used.
C24_ExecFailed ==
  /\ drv = Pgx
  /\ ret.op = "Exec"
  /\ ret.err = ErrBackend
  /\ ~ret.used0
  /\ segs[ret.seg].used
  /\ Cardinality(BackendCallsOf(ret.seg)) = 1

\* A Firestore Commit is running.
CommitRunning == drv = Firestore /\ fc.pc \in {"attempt", "sleep", "after"}

\* A Firestore Commit has returned and is the call that finished last.
CommitReturned == drv = Firestore /\ fc.pc = "idle" /\ ret.op = "Commit"

\* C25: a Firestore Commit sleeps, and sends a further commit request, only
\* after a request the backend answered with Aborted; a request answered
\* with success or with another error is the call's last, the call returns
\* that answer, and every sleep of the call came before it.
C25_OnlyAbortedRetried ==
  /\ (CommitRunning /\ fc.issued >= 1) => fc.lastCommit = ErrAborted
  /\ (CommitRunning /\ fc.pc = "sleep") => fc.issued >= 1
  /\ (CommitReturned /\ ret.lastCommit \notin {"none", ErrAborted}) =>
       /\ ret.err = ret.lastCommit
       /\ ret.issued = ret.attempts
       /\ ret.sleeps = ret.attempts - 1
       /\ ~ret.rb

\* A Commit retried after Aborted and ended on the Unavailable that followed.
C25_EndedOnOtherError ==
  /\ CommitReturned
  /\ ret.attempts = 2
  /\ ret.sleeps = 1
  /\ ret.lastCommit = ErrUnavailable
  /\ ret.err = ErrUnavailable
  /\ calls[Len(calls)].res = ErrUnavailable
  /\ calls[Len(calls) - 1].res = ErrAborted

\* C26: on a read-only transactional Firestore session with maxAttempts of
\* at least 1, a Commit never sleeps and never leaves its loop by running out
\* of attempts: it sends one commit request and returns the backend's answer
\* to it, Aborted included.
C26_ReadOnlyNoRetry ==
  ( /\ drv = Firestore
    /\ sess.alive
    /\ sess.txId # 0
    /\ sess.cfg.readOnly
    /\ sess.cfg.maxAttempts >= 1 ) =>
    /\ fc.pc \in {"idle", "attempt"}
    /\ fc.pc = "attempt" => (fc.issued = 0 /\ fc.sleeps = 0)
    /\ CommitReturned =>
         /\ ret.attempts = 1
         /\ ret.issued = 1
         /\ ret.sleeps = 0
         /\ ret.lastCommit \in CommitResults
         /\ ret.err = ret.lastCommit

\* A Commit on a read-only session with two attempts allowed returned the
\* Aborted of its only commit request.
C26_AbortedReturned ==
  /\ CommitReturned
  /\ sess.txId # 0
  /\ sess.cfg.readOnly
  /\ sess.cfg.maxAttempts = 2
  /\ ret.nth = 1
  /\ ret.attempts = 1
  /\ ret.err = ErrAborted
  /\ calls[Len(calls)].res = ErrAborted

\* The places in calls of the commit requests of the running Commit.
RunningAttempts == (Len(calls) - fc.issued + 1)..Len(calls)

\* C27: within one Firestore Commit the retry linkage naming the session's
\* transaction identity exists from the first retry on, and every commit
\* request after the call's first reaches the backend carrying it, for the
\* same transaction identity as the request before.
C27_RetryLinkage ==
  CommitRunning =>
    /\ fc.txOpts = (fc.issued >= 1)
    /\ \A i \in RunningAttempts :
         /\ calls[i].op = "Commit"
         /\ calls[i].txId = sess.txId
         /\ i > Len(calls) - fc.issued + 1 => calls[i].retry

\* The writes of a sequence, as a set.
Range(q) == {q[i] : i \in 1..Len(q)}

\* C28: the buffer of a transactional Firestore session holds the writes
\* staged on it in the order they were staged; until the session's first
\* Commit the backend has received none of them; the buffer is empty when a
\* Commit retries, and no write is carried by two commit requests of one
\* Commit.
C28_StagedWriteBuffer ==
  (drv = Firestore /\ sess.alive /\ sess.txId # 0) =>
    /\ \A i, j \in 1..Len(sess.writes) : i < j => sess.writes[i] < sess.writes[j]
    /\ ncommit = 0 =>
         /\ \A i \in 1..Len(calls) : calls[i].writes = <<>>
         /\ Range(sess.writes) = 1..Len(sess.writes)
    /\ (CommitRunning /\ fc.pc = "attempt" /\ fc.issued >= 1) => sess.writes = <<>>
    /\ CommitRunning =>
         \A i, j \in RunningAttempts :
           i # j => Range(calls[i].writes) \cap Range(calls[j].writes) = {}
    /\ (CommitRunning /\ fc.issued >= 1) =>
         calls[Len(calls) - fc.issued + 1].writes = fc.writes0

\* A Commit on a session with two staged writes sent them, in order, in its
\* first commit request and sent a second request after Aborted.
C28_SecondAttemptSent ==
  /\ CommitRunning
  /\ fc.issued = 2
  /\ fc.writes0 = <<1, 2>>
  /\ calls[Len(calls) - 1].writes = <<1, 2>>
  /\ calls[Len(calls)].writes = <<>>

\* C29: when a Commit on a transactional Firestore session returns nil after
\* a commit request of it succeeded, every write that was in the session's
\* buffer when the Commit was called has been carried by a commit request
\* the backend answered with success.
C29_NoLostWrites ==
  ( /\ CommitReturned
    /\ sess.txId # 0
    /\ ret.err = ErrNil
    /\ ret.attempts >= 1
    /\ ret.lastCommit = ErrNil ) =>
    \A w \in Range(ret.writes0) :
      \E i \in 1..Len(calls) :
        /\ calls[i].op = "Commit"
        /\ calls[i].res = ErrNil
        /\ w \in Range(calls[i].writes)

\* C31: every Firestore Commit call returns, whatever the backend answers to
\* its commit requests and however its sleeps end, and it sends at most
\* maxAttempts commit requests; with maxAttempts of 0 the backend receives no
\* commit request at all.
C31_CommitTerminates ==
  /\ [](CommitRunning => fc.issued <= sess.cfg.maxAttempts)
  /\ [](CommitReturned => ret.attempts <= sess.cfg.maxAttempts)
  /\ []((sess.alive /\ sess.cfg.maxAttempts = 0) => BackendCalls("Commit") = {})
  /\ (CommitRunning ~> CommitReturned)

\* A Commit used its whole budget of two attempts, each answered with
\* Aborted, and returned.
C31_BudgetUsedUp ==
  /\ CommitReturned
  /\ sess.cfg.maxAttempts = 2
  /\ ret.attempts = 2
  /\ ret.sleeps = 2
  /\ ret.lastCommit = ErrAborted
  /\ Cardinality(BackendCalls("Commit")) = 2

\* C32: a Firestore Commit sleeps only between two commit requests: it does
\* not sleep after the last attempt its budget allows, every sleep that ended
\* without an error is followed by a further commit request, and a call that
\* returned with no sleep cut short made one sleep fewer than requests.
C32_SleepsBetweenAttempts ==
  /\ (CommitRunning /\ fc.pc = "sleep") => fc.issued < sess.cfg.maxAttempts
  /\ (CommitRunning /\ fc.pc = "after" /\ fc.sleepErr = ErrNil) =>
       fc.sleeps < fc.issued \/ fc.issued = 0
  /\ (CommitReturned /\ ret.attempts >= 1 /\ ret.sleepErr = ErrNil) =>
       ret.sleeps = ret.attempts - 1

\* The handle a segment of the session is to execute on.
Handle == IF sess.cfg.transaction THEN "tx" ELSE "conn"

\* This step starts an execution method of segment g.
Executes(g) ==
  /\ segs[g].made
  /\ segs'[g] # segs[g]
  /\ Len(stack') >= Len(stack)

\* C33: on a pgx or pgxpool session every statement of a segment reaches the
\* backend on the transaction handle when the session is transactional and
\* on the connection or pool when it is not, and the backend receives the
\* statements in the order the caller executed the segments: each execution
\* of a segment not yet used adds its one statement behind all the calls the
\* backend received before.
C33_SegmentRouting ==
  /\ [](\A i \in 1..Len(calls) :
          calls[i].seg # 0 => (sess.alive /\ calls[i].via = Handle))
  /\ [][\A g \in DOMAIN segs :
          (Executes(g) /\ ~segs[g].used) =>
            /\ Len(calls') = Len(calls) + 1
            /\ SubSeq(calls', 1, Len(calls)) = calls
            /\ calls'[Len(calls')].seg = g
            /\ calls'[Len(calls')].op \in SegmentOps
            /\ calls'[Len(calls')].via = Handle]_vars

\* A transactional session executed its second segment before its first,
\* and the backend received the two statements in that order on the
\* transaction handle.
C33_SecondBeforeFirst ==
  /\ sess.alive
  /\ sess.cfg.transaction
  /\ Len(calls) = 3
  /\ calls[1].op = "BeginTx"
  /\ calls[2].seg = 2 /\ calls[2].via = "tx"
  /\ calls[3].seg = 1 /\ calls[3].via = "tx"

\* The requests of the transactional Firestore session: the BeginTransaction
\* that made it, which is the last one the backend received, and every
\* request since.
SessionRequests ==
  {i \in 1..Len(calls) :
     \A j \in BackendCalls("BeginTransaction") : j <= i}

\* C34: the BeginTransaction, Commit and Rollback requests of one Firestore
\* session all name the database of the session's configuration, which is
\* the driver's default unless a WithDatabase option of the Begin call
\* replaced it.
C34_ConsistentDatabase ==
  (drv = Firestore /\ sess.alive /\ sess.txId # 0) =>
    /\ sess.cfg.database \in Databases
    /\ \A i \in SessionRequests :
         /\ calls[i].op \in {"BeginTransaction", "Commit", "Rollback"}
         /\ calls[i].db = sess.cfg.database

\* C35: on a transactional pgx or pgxpool session, a Commit or Rollback call
\* that follows a Rollback call which returned nil sends no call to the
\* backend and does not mark the session committed.
C35_RollbackTerminal ==
  [][( /\ drv \in LockDrivers
       /\ sess.alive
       /\ sess.cfg.transaction
       /\ ret.op = "Rollback"
       /\ ret.err = ErrNil
       /\ ret.issued = 1
       /\ ret'.op \in {"Commit", "Rollback"} ) =>
       /\ calls' = calls
       /\ sess'.committed = sess.committed]_vars

\* A call of segment g entered its row callback and has not returned.
Running(g) == \E i \in 1..Len(stack) : stack[i].seg = g

\* C36: a segment counts as used from the moment one of its execution
\* methods makes its backend call: while Query's row callback runs, no call
\* of the same segment reaches the backend, and an execution method called
\* on it from inside the callback returns the already-used error.
C36_UsedBeforeBackendCall ==
  drv \in {Pgx, PgxPool, V1} =>
    /\ \A i \in 1..Len(calls) : ~calls[i].reentrant
    /\ (ret.op \in SegmentOps /\ Running(ret.seg)) =>
         (ret.err = UsedError /\ ret.issued = 0)

\* The expectations not yet fulfilled that match a call.
Candidates(method, args) ==
  {i \in 1..Len(mock.expectations) :
     /\ ~mock.expectations[i].isFulfilled
     /\ basicExpectationMatch(mock.expectations[i], method, args) = ErrNil}

C38_ExactCallAudit ==
  mock.last.method = "AllExpectationsMet" =>
    (mock.last.err = ErrNil <=>
       /\ \A i \in 1..Len(mock.expectations) : mock.expectations[i].isFulfilled
       /\ mock.unmatched = 0)

\* C39: when several goroutines call one mock at the same time, no
\* expectation hands its returns to two calls.
C39_NoDoubleConsumption ==
  \A i \in 1..Len(mock.expectations) : mock.expectations[i].served <= 1

====
